---- MODULE Spec2Model ----
(***************************************************************************)
(* gdb::function_view (gdb/common/function-view.h): a non-owning,          *)
(* type-erased reference to a callable.  A view is the pair                *)
(* (m_erased_callable, m_invoker).  The model keeps three views, two of    *)
(* type function_view<int (int)> and one of type function_view<void (int)>,*)
(* and a small set of client callables they can be bound to.               *)
(***************************************************************************)
EXTENDS Integers, Sequences, FiniteSets, TLC

VARIABLES view, p, n, g, pc, last, origin, copied, expectN, lastc1,
          cand, csig, trial

vars == <<view, p, n, g, pc, last, origin, copied, expectN, lastc1,
          cand, csig, trial>>

(* ------------------------------ bounds --------------------------------- *)
MaxCalls == 3
MaxArity == 1

(* ------------------------- types and values ---------------------------- *)
Types == {"void", "bool", "int", "S"}
ParamTypes == Types \ {"void"}

Val(t, v) == [t |-> t, v |-> v]
VoidVal == Val("void", 0)

is_void(To) == To = "void"

is_same(From, To) == From = To

is_convertible(From, To) ==
  \/ From = To
  \/ From \in {"bool", "int"} /\ To \in {"bool", "int"}

(* The C-style cast (Res) applied to the callee's result, and the implicit *)
(* conversion of a forwarded argument to the callee's parameter type.      *)
Cast(val, To) ==
  IF To = "void" THEN VoidVal
  ELSE IF val.t = To THEN val
  ELSE IF val.t = "int" /\ To = "bool" THEN Val("bool", IF val.v # 0 THEN 1 ELSE 0)
  ELSE IF val.t = "bool" /\ To = "int" THEN Val("int", val.v)
  ELSE val

ConvArgs(args, to) == [i \in 1..Len(args) |-> Cast(args[i], to[i])]

(* ------------------------------ traits --------------------------------- *)
Not(Predicate) == ~Predicate

Or2(B1, B2) == IF B1 THEN B1 ELSE B2

Or3(B1, B2, B3) == IF B1 THEN B1 ELSE Or2(B2, B3)

(* Mutant: the rule without its first alternative, is_void<To>.            *)
CompatibleReturnType_NoVoid(From, To) ==
  Or2(is_same(From, To), is_convertible(From, To))

CompatibleReturnType(From, To) ==
  Or3(is_void(To), is_same(From, To), is_convertible(From, To))

(* A callable type is described by its category and its call signature.    *)
(* cat: "fn" (function or function pointer), "class" (object with a call   *)
(* operator, closures included), "view" (a function_view), "scalar" (not   *)
(* callable at all).                                                       *)
Desc(cat, res, args) == [cat |-> cat, res |-> res, args |-> args]
Sig(res, args) == [res |-> res, args |-> args]

(* The type deduced for the forwarding reference Callable && from an       *)
(* argument expression of type T: T & for an lvalue, const T & for a const *)
(* lvalue, T for an rvalue.                                                *)
QType(base, const, ref) == [base |-> base, const |-> const, ref |-> ref]

Decos == {"lvalue", "const lvalue", "rvalue"}

Deduce(T, deco) ==
  IF deco = "lvalue" THEN QType(T, FALSE, TRUE)
  ELSE IF deco = "const lvalue" THEN QType(T, TRUE, TRUE)
  ELSE QType(T, FALSE, FALSE)

(* std::result_of<Callable &(Args...)>::type, "none" when the call is      *)
(* ill-formed (substitution failure).                                      *)
result_of(Callable, Args) ==
  IF /\ Callable.base.cat # "scalar"
     /\ Len(Callable.base.args) = Len(Args)
     /\ \A i \in 1..Len(Args) : is_convertible(Args[i], Callable.base.args[i])
  THEN Callable.base.res
  ELSE "none"

IsCompatibleCallable(Callable, S) ==
  LET Res2 == result_of(Callable, S.args)
  IN  IF Res2 = "none" THEN FALSE ELSE CompatibleReturnType(Res2, S.res)

(* std::decay: drops the reference and the top-level qualifier.            *)
decay(Callable) == QType(Callable.base, FALSE, FALSE)

ViewType(S) == Desc("view", S.res, S.args)

(* Mutant: the comparison made on the deduced type as it is, without       *)
(* std::decay.                                                             *)
IsFunctionView_NoDecay(Callable, S) ==
  is_same(QType(ViewType(S), FALSE, FALSE), Callable)

IsFunctionView(Callable, S) ==
  is_same(QType(ViewType(S), FALSE, FALSE), decay(Callable))

(* --------------------- the pair held by a view ------------------------- *)
(* The union: tag names the member last written (the active member), addr  *)
(* the address it holds.                                                   *)
erased_callable(tag, addr) == [tag |-> tag, addr |-> addr]

(* m_invoker: the null pointer, or the capture-less lambda of one of the   *)
(* two bind overloads, instantiated for one callable type.                 *)
Invoker(kind, type) == [kind |-> kind, type |-> type]
NullInvoker == Invoker("null", Desc("scalar", "void", <<>>))

function_view(callable, invoker) == [m_erased_callable |-> callable, m_invoker |-> invoker]

(* function_view () and function_view (std::nullptr_t): value              *)
(* initialisation of the union zeroes its first member, data.              *)
function_view_default == function_view(erased_callable("data", "null"), NullInvoker)

(* bind (Callable &callable)                                               *)
bind_obj(T, addr) == function_view(erased_callable("data", addr), Invoker("obj", T))

(* Mutant: the function pointer stored through the data member.           *)
bind_fn_AsData(T, fn) == function_view(erased_callable("data", fn), Invoker("fn", T))

(* bind (function pointer overload)                                        *)
bind_fn(T, fn) == function_view(erased_callable("fn", fn), Invoker("fn", T))

(* Mutant: no function pointer overload; every argument, a function       *)
(* pointer variable included, is bound by reference.                       *)
bind_ByReference(T, val, addr) == bind_obj(T, addr)

(* Overload resolution between the two bind templates: a function or a     *)
(* function pointer takes the pointer overload, anything else the          *)
(* reference overload.  addr is the address of the argument, val the code  *)
(* address a function or function pointer argument converts to.            *)
bind(T, val, addr) == IF T.cat = "fn" THEN bind_fn(T, val) ELSE bind_obj(T, addr)

(* Mutant: the assignment clears the payload and leaves the invoker.       *)
assign_null_PayloadOnly(fv) == [fv EXCEPT !.m_erased_callable = erased_callable("data", "null")]

(* operator= (std::nullptr_t)                                              *)
assign_null(fv) == [fv EXCEPT !.m_invoker = NullInvoker]

(* Mutant: the test looks at the payload instead of the invoker.           *)
operator_bool_Payload(fv) == fv.m_erased_callable.addr # "null"

(* operator bool, and the four comparisons with nullptr                    *)
operator_bool(fv) == fv.m_invoker # NullInvoker

eq_null_r(fv) == ~operator_bool(fv)

eq_null_l(fv) == ~operator_bool(fv)

ne_null_r(fv) == operator_bool(fv)

ne_null_l(fv) == operator_bool(fv)

(* Mutant: a view of any signature is taken by copy of its pair.           *)
SelectCtor_AnyViewCopies(T, deco, S) ==
  IF T.cat = "view" THEN "copy"
  ELSE IF IsCompatibleCallable(Deduce(T, deco), S) THEN "bind"
  ELSE "none"

(* Which constructor a construction from an argument of type T, decorated  *)
(* deco, selects for a view of signature S: "copy" (the defaulted copy     *)
(* constructor), "bind" (the converting constructor template) or "none"    *)
(* (no viable constructor: the program does not build).  When both are     *)
(* viable the template is the better match for a non-const lvalue, and the *)
(* non-template wins the tie otherwise.                                    *)
SelectCtor(T, deco, S) ==
  LET Callable == Deduce(T, deco)
      tmpl == Not(IsFunctionView(Callable, S)) /\ IsCompatibleCallable(Callable, S)
      copy == T = ViewType(S)
  IN  IF tmpl /\ copy THEN (IF deco = "lvalue" THEN "bind" ELSE "copy")
      ELSE IF tmpl THEN "bind"
      ELSE IF copy THEN "copy"
      ELSE "none"

(* ------------------------- client callables ---------------------------- *)
(* The callables the views are bound to: two free functions of type        *)
(* int (int), a function object counting its calls, and a closure that     *)
(* captured the threshold 5 by value.                                      *)
Threshold == 5
ArgVals == {3, 5, 7}

Views == {"v1", "v2", "w"}
Funcs == {"f1", "f2"}
Objs == {"c1", "gt"}

IntInt == Sig("int", <<"int">>)
VoidInt == Sig("void", <<"int">>)

ViewSig(v) == IF v = "w" THEN VoidInt ELSE IntInt

FnType == Desc("fn", "int", <<"int">>)
CounterType == Desc("class", "int", <<"int">>)
ClosureType == Desc("class", "bool", <<"int">>)

(* Static type of what lives at an address: the function objects, the     *)
(* views, the free functions and the function pointer variable p.          *)
ObjType(addr) ==
  IF addr = "c1" THEN CounterType
  ELSE IF addr = "gt" THEN ClosureType
  ELSE IF addr \in Views THEN ViewType(ViewSig(addr))
  ELSE IF addr \in Funcs \cup {"p"} THEN FnType
  ELSE Desc("scalar", "void", <<>>)

(* The state a call threads through: the counter of c1, the global the     *)
(* free functions add to, the number of client bodies run, whether the     *)
(* call left defined behaviour, the value returned.                        *)
CallState(cn, cg) ==
  [n |-> cn, g |-> cg, calls |-> 0, ub |-> FALSE, ret |-> VoidVal]

Undefined(st) == [st EXCEPT !.ub = TRUE]

(* Bodies of the free functions; calling through a null function pointer   *)
(* is undefined.                                                           *)
CallFn(f, args, st) ==
  IF f = "f1" THEN
    [st EXCEPT !.g = @ + 1, !.calls = @ + 1, !.ret = Val("int", args[1].v + 1)]
  ELSE IF f = "f2" THEN
    [st EXCEPT !.g = @ + 2, !.calls = @ + 1, !.ret = Val("int", args[1].v + 2)]
  ELSE Undefined(st)

(* Call operators of the function objects.                                 *)
CallBody(c, args, st) ==
  IF c = "c1" THEN
    [st EXCEPT !.n = @ + 1, !.calls = @ + 1, !.ret = Val("int", st.n + 1)]
  ELSE
    [st EXCEPT !.calls = @ + 1,
               !.ret = Val("bool", IF args[1].v > Threshold THEN 1 ELSE 0)]

RECURSIVE operator_call(_, _, _)
RECURSIVE CallObject(_, _, _)

(* The member of the union a trampoline reads: ecall.data in the lambda of *)
(* bind (Callable &), ecall.fn in the lambda of the pointer overload.      *)
TrampolineReads(kind) == IF kind = "obj" THEN "data" ELSE "fn"

(* Mutant: the result of the callee returned without the cast to Res.      *)
ObjTrampoline_NoCast(Callable, ecall, Res, args, st) ==
  IF \/ ecall.tag # TrampolineReads("obj")
     \/ ecall.addr = "null"
     \/ ObjType(ecall.addr) # Callable
  THEN Undefined(st)
  ELSE CallObject(ecall.addr, ConvArgs(args, Callable.args), st)

(* Mutant: restored_callable declared by value: the call runs on a copy of *)
(* the function object, and the object itself keeps its state.             *)
ObjTrampoline_OnCopy(Callable, ecall, Res, args, st) ==
  IF \/ ecall.tag # TrampolineReads("obj")
     \/ ecall.addr = "null"
     \/ ObjType(ecall.addr) # Callable
  THEN Undefined(st)
  ELSE LET r == CallObject(ecall.addr, ConvArgs(args, Callable.args), st)
       IN  IF r.ub THEN r
           ELSE [r EXCEPT !.ret = Cast(r.ret, Res),
                          !.n = IF Callable.cat = "class" THEN st.n ELSE @]

(* The lambda of bind (Callable &): restores the object from ecall.data    *)
(* and calls it, casting the result to Res.                                *)
ObjTrampoline(Callable, ecall, Res, args, st) ==
  IF \/ ecall.tag # TrampolineReads("obj")
     \/ ecall.addr = "null"
     \/ ObjType(ecall.addr) # Callable
  THEN Undefined(st)
  ELSE LET r == CallObject(ecall.addr, ConvArgs(args, Callable.args), st)
       IN  IF r.ub THEN r ELSE [r EXCEPT !.ret = Cast(r.ret, Res)]

(* The lambda of the function pointer overload of bind: restores the       *)
(* function pointer from ecall.fn and calls it, casting the result to Res. *)
FnTrampoline(FnT, ecall, Res, args, st) ==
  IF ecall.tag # TrampolineReads("fn")
  THEN Undefined(st)
  ELSE LET r == CallFn(ecall.addr, ConvArgs(args, FnT.args), st)
       IN  IF r.ub THEN r ELSE [r EXCEPT !.ret = Cast(r.ret, Res)]

(* function_view::operator (): no check of m_invoker.                      *)
operator_call(v, args, st) ==
  LET fv == view[v]
  IN  IF fv.m_invoker.kind = "null" THEN Undefined(st)
      ELSE IF fv.m_invoker.kind = "obj"
      THEN ObjTrampoline(fv.m_invoker.type, fv.m_erased_callable,
                         ViewSig(v).res, args, st)
      ELSE FnTrampoline(fv.m_invoker.type, fv.m_erased_callable,
                        ViewSig(v).res, args, st)

(* restored_callable (args...): the call of the object at addr, which is   *)
(* a view, a function object, a function, or the pointer variable p.       *)
CallObject(addr, args, st) ==
  IF addr \in Views THEN operator_call(addr, args, st)
  ELSE IF addr \in Funcs THEN CallFn(addr, args, st)
  ELSE IF addr = "p" THEN CallFn(p, args, st)
  ELSE CallBody(addr, args, st)

(* ------------------------ observation variables ------------------------ *)
(* origin[v]: where the current value of v came from; a copy takes the     *)
(* origin of its source.  snap is, for a view bound to another view, the   *)
(* callable that view led to when the binding was made.                    *)
Origin(kind, target, snap) == [kind |-> kind, target |-> target, snap |-> snap]

Empty == Origin("empty", "none", "none")

RECURSIVE ExpectedTarget(_)
ExpectedTarget(v) ==
  IF origin[v].kind \in {"fn", "ptr", "obj"} THEN origin[v].target
  ELSE IF origin[v].kind = "view" THEN ExpectedTarget(origin[v].target)
  ELSE "empty"

NoCopy == [src |-> "none", pair |-> function_view_default]
NoLast == [via |-> "none", arg |-> 0, calls |-> 0, ret |-> VoidVal, prev |-> "none"]

(* The storage of a view that was never constructed.                       *)
NoView == function_view(erased_callable("none", "null"), NullInvoker)
NoTrial == [state |-> "unbuilt", deco |-> "lvalue", fv |-> NoView]
NoCand == Desc("scalar", "void", <<>>)

(* ------------------------------ actions -------------------------------- *)
(* Every step that is not a call through a view clears last: last          *)
(* describes the step just taken when that step was such a call.  lastc1   *)
(* is the path of the latest call that was to reach c1 since a view last   *)
(* changed.                                                                *)
SetView(v, fv, o, c) ==
  /\ view' = [view EXCEPT ![v] = fv]
  /\ origin' = [origin EXCEPT ![v] = o]
  /\ copied' = [copied EXCEPT ![v] = c]
  /\ last' = NoLast
  /\ lastc1' = "none"
  /\ UNCHANGED <<p, n, g, pc, expectN, cand, csig, trial>>

(* function_view ()                                                        *)
DefaultConstruct(v) ==
  /\ pc = "run"
  /\ SetView(v, function_view_default, Empty, NoCopy)

(* function_view (std::nullptr_t)                                          *)
NullConstruct(v) ==
  /\ pc = "run"
  /\ SetView(v, function_view_default, Empty, NoCopy)

(* function_view (Callable &&) from the name of a free function            *)
ConstructFromFunction(v, f) ==
  /\ pc = "run"
  /\ SelectCtor(FnType, "lvalue", ViewSig(v)) = "bind"
  /\ SetView(v, bind(FnType, f, f), Origin("fn", f, "none"), NoCopy)

(* function_view (Callable &&) from the function pointer variable p        *)
ConstructFromPointer(v) ==
  /\ pc = "run"
  /\ SelectCtor(FnType, "lvalue", ViewSig(v)) = "bind"
  /\ SetView(v, bind(FnType, p, "p"), Origin("ptr", p, "none"), NoCopy)

(* function_view (Callable &&) from a function object or a closure         *)
ConstructFromObject(v, c) ==
  /\ pc = "run"
  /\ SelectCtor(ObjType(c), "lvalue", ViewSig(v)) = "bind"
  /\ SetView(v, bind(ObjType(c), "null", c), Origin("obj", c, "none"), NoCopy)

(* Construction from another view: the copy constructor when the types     *)
(* agree, the converting constructor otherwise.                            *)
ConstructFromView(v, src, deco) ==
  /\ pc = "run"
  /\ src # v
  /\ LET T == ObjType(src)
         same == T = ViewType(ViewSig(v))
         sel == SelectCtor(T, deco, ViewSig(v))
     IN  /\ sel # "none"
         /\ SetView(v,
                    IF sel = "copy" THEN view[src] ELSE bind(T, "null", src),
                    IF same THEN origin[src]
                            ELSE Origin("view", src, ExpectedTarget(src)),
                    IF same THEN [src |-> src, pair |-> view[src]] ELSE NoCopy)

(* Mutant: an assignment that copies the payload and forgets the invoker.  *)
CopyAssign_PayloadOnly(v, src) ==
  /\ pc = "run"
  /\ src # v
  /\ ObjType(src) = ObjType(v)
  /\ SetView(v, [view[v] EXCEPT !.m_erased_callable = view[src].m_erased_callable],
             origin[src], [src |-> src, pair |-> view[src]])

(* operator= (const function_view &)                                       *)
CopyAssign(v, src) ==
  /\ pc = "run"
  /\ src # v
  /\ ObjType(src) = ObjType(v)
  /\ SetView(v, view[src], origin[src], [src |-> src, pair |-> view[src]])

(* operator= (std::nullptr_t)                                              *)
NullAssign(v) ==
  /\ pc = "run"
  /\ SetView(v, assign_null(view[v]), Origin("nullassign", "none", "none"), NoCopy)

(* The client stores another function in its pointer variable.             *)
ReassignP(f) ==
  /\ pc = "run"
  /\ f # p
  /\ p' = f
  /\ last' = NoLast
  /\ UNCHANGED <<view, n, g, pc, origin, copied, expectN, lastc1,
                 cand, csig, trial>>

(* A call left defined behaviour: the program stops, or the call returns   *)
(* a value nobody chose and nothing more is known of the program.          *)
UndefinedOutcome(via, a) ==
  /\ \/ /\ pc' = "crashed"
        /\ last' = [via |-> via, arg |-> a, calls |-> 0, ret |-> VoidVal,
                    prev |-> lastc1]
     \/ /\ pc' = "undefined"
        /\ \E junk \in {Val("int", 0), Val("int", 1)} :
             last' = [via |-> via, arg |-> a, calls |-> 0, ret |-> junk,
                      prev |-> lastc1]
  /\ UNCHANGED <<n, g, expectN, lastc1>>

(* v (a): a call through a view, empty or not.                             *)
Invoke(v, a) ==
  /\ pc = "run"
  /\ n + g < MaxCalls
  /\ LET r == operator_call(v, <<Val("int", a)>>, CallState(n, g))
     IN  IF r.ub THEN UndefinedOutcome(v, a)
         ELSE /\ n' = r.n
              /\ g' = r.g
              /\ last' = [via |-> v, arg |-> a, calls |-> r.calls, ret |-> r.ret,
                          prev |-> lastc1]
              /\ expectN' = IF ExpectedTarget(v) = "c1" THEN expectN + 1 ELSE expectN
              /\ lastc1' = IF ExpectedTarget(v) = "c1" THEN v ELSE lastc1
              /\ UNCHANGED pc
  /\ UNCHANGED <<view, p, origin, copied, cand, csig, trial>>

(* The call c (a) made on the callable itself, from the current state.     *)
Direct(c, a) ==
  IF c \in Funcs THEN CallFn(c, <<Val("int", a)>>, CallState(n, g))
                 ELSE CallBody(c, <<Val("int", a)>>, CallState(n, g))

(* c (a), f (a): the client calls a callable itself.                       *)
DirectCall(c, a) ==
  /\ pc = "run"
  /\ n + g < MaxCalls
  /\ LET r == Direct(c, a)
     IN  /\ n' = r.n
         /\ g' = r.g
         /\ expectN' = IF c = "c1" THEN expectN + 1 ELSE expectN
         /\ lastc1' = IF c = "c1" THEN "direct" ELSE lastc1
  /\ last' = NoLast
  /\ UNCHANGED <<view, p, pc, origin, copied, cand, csig, trial>>

(* The client offers an argument of type cand to the constructors of a     *)
(* view of signature csig: a view is built, or the program does not build  *)
(* and there is no view.                                                   *)
TryConstruct(deco) ==
  /\ trial.state = "unbuilt"
  /\ LET sel == SelectCtor(cand, deco, csig)
     IN  trial' = [state |-> IF sel = "none" THEN "rejected" ELSE "built",
                   deco |-> deco,
                   fv |-> IF sel = "bind" THEN bind(cand, "x", "x")
                          ELSE IF sel = "copy" THEN function_view_default
                          ELSE NoView]
  /\ UNCHANGED <<view, p, n, g, pc, last, origin, copied, expectN, lastc1,
                 cand, csig>>

InitMain ==
  /\ view = [v \in Views |-> function_view_default]
  /\ origin = [v \in Views |-> Empty]
  /\ copied = [v \in Views |-> NoCopy]
  /\ p = "f1"
  /\ n = 0
  /\ g = 0
  /\ pc = "run"
  /\ last = NoLast
  /\ expectN = 0
  /\ lastc1 = "none"

Init ==
  /\ InitMain
  /\ cand = NoCand
  /\ csig = IntInt
  /\ trial = NoTrial

(* A client with a view of each signature: it binds them to every kind of  *)
(* callable, makes the one from the other, clears them and calls.          *)
Next ==
  \/ \E v \in {"v1", "w"} : DefaultConstruct(v)
  \/ \E v \in {"v1", "w"} : NullConstruct(v)
  \/ \E v \in {"v1", "w"}, f \in Funcs : ConstructFromFunction(v, f)
  \/ \E v \in {"v1", "w"} : ConstructFromPointer(v)
  \/ \E v \in {"v1", "w"}, c \in Objs : ConstructFromObject(v, c)
  \/ \E deco \in Decos : ConstructFromView("w", "v1", deco)
  \/ \E v \in {"v1", "w"} : NullAssign(v)
  \/ \E f \in Funcs : ReassignP(f)
  \/ \E v \in {"v1", "w"}, a \in ArgVals : Invoke(v, a)
  \/ \E c \in Funcs \cup Objs, a \in ArgVals : DirectCall(c, a)

Spec == Init /\ [][Next]_vars

(* A client with two views of one signature: it binds, copies, clears and  *)
(* calls.                                                                  *)
NextShare ==
  \/ \E v \in {"v1", "v2"} : DefaultConstruct(v)
  \/ \E v \in {"v1", "v2"} : ConstructFromFunction(v, "f1")
  \/ \E v \in {"v1", "v2"}, c \in Objs : ConstructFromObject(v, c)
  \/ \E v \in {"v1", "v2"}, src \in {"v1", "v2"}, deco \in Decos :
       ConstructFromView(v, src, deco)
  \/ \E v \in {"v1", "v2"}, src \in {"v1", "v2"} : CopyAssign(v, src)
  \/ \E v \in {"v1", "v2"} : NullAssign(v)
  \/ \E v \in {"v1", "v2"}, a \in ArgVals : Invoke(v, a)
  \/ \E c \in {"f1"} \cup Objs, a \in ArgVals : DirectCall(c, a)

SpecShare == Init /\ [][NextShare]_vars

(* A client with all three views, which it only binds, copies and clears.  *)
NextState ==
  \/ \E v \in Views : DefaultConstruct(v)
  \/ \E v \in Views : NullConstruct(v)
  \/ \E v \in Views, f \in Funcs : ConstructFromFunction(v, f)
  \/ \E v \in Views : ConstructFromPointer(v)
  \/ \E v \in Views, c \in Objs : ConstructFromObject(v, c)
  \/ \E v \in Views, src \in Views, deco \in Decos : ConstructFromView(v, src, deco)
  \/ \E v \in Views, src \in Views : CopyAssign(v, src)
  \/ \E v \in Views : NullAssign(v)
  \/ \E f \in Funcs : ReassignP(f)

SpecState == Init /\ [][NextState]_vars

(* Every argument type up to MaxArity parameters offered to every view     *)
(* signature up to MaxArity parameters.                                    *)
ArgLists == UNION {[1..k -> ParamTypes] : k \in 0..MaxArity}

CandTypes ==
  {Desc(cat, res, args) : cat \in {"fn", "class", "view"}, res \in Types,
                          args \in ArgLists}
  \cup {Desc("scalar", "void", <<>>)}

Sigs == {Sig(res, args) : res \in Types, args \in ArgLists}

InitAccept ==
  /\ InitMain
  /\ cand \in CandTypes
  /\ csig \in Sigs
  /\ trial = NoTrial

NextAccept == \E deco \in Decos : TryConstruct(deco)

SpecAccept == InitAccept /\ [][NextAccept]_vars

(* =============================== claims ================================ *)

(* C1: a call through a view bound to a callable c, with argument a, runs  *)
(* c exactly once, changes the state as the call c (a) made directly       *)
(* would, and returns that call's result converted to the declared result  *)
(* type of the view (nothing when that type is void).                      *)
C1_InvokeIsDirectCall ==
  [][\A v \in Views :
       (last'.via = v /\ origin[v].kind \in {"fn", "ptr", "obj"}) =>
         LET d == Direct(origin[v].target, last'.arg)
         IN  /\ pc' = "run"
             /\ last'.calls = 1
             /\ n' = d.n
             /\ g' = d.g
             /\ last'.ret = Cast(d.ret, ViewSig(v).res)]_vars

(* The closure, whose result is bool, was called through the int (int)     *)
(* view with 7 and the view returned the int 1.                            *)
C1_Witness ==
  /\ pc = "run"
  /\ last.via = "v1"
  /\ origin["v1"] = Origin("obj", "gt", "none")
  /\ last.arg = 7
  /\ last.calls = 1
  /\ last.ret = Val("int", 1)

(* C2: the counter of the function object c1 equals the number of calls    *)
(* made to it, through whichever view bound to it or directly.             *)
C2_CounterCountsEveryCall == n = expectN

(* Two views were each constructed from c1; the third call went through    *)
(* the second right after a call through the first, and returned 3.        *)
C2_Witness ==
  /\ pc = "run"
  /\ n = 3
  /\ origin["v1"] = Origin("obj", "c1", "none")
  /\ origin["v2"] = Origin("obj", "c1", "none")
  /\ copied["v1"] = NoCopy
  /\ copied["v2"] = NoCopy
  /\ last.via = "v2"
  /\ last.prev = "v1"
  /\ last.ret = Val("int", 3)

(* A view that is a copy of a view bound to c1, or the original of such a  *)
(* copy.                                                                   *)
Linked(x) ==
  /\ origin[x] = Origin("obj", "c1", "none")
  /\ \/ copied[x].src # "none"
     \/ \E y \in Views : copied[y].src = x /\ origin[y] = origin[x]

(* C3: a copy leaves its source as it was and holds the source's pair, and *)
(* a call through the copy or through the original runs on the one         *)
(* function object: it increments the counter every earlier call           *)
(* incremented and returns the new count.                                  *)
C3_CopySharesCallable ==
  [][/\ \A x \in Views, s \in Views :
          (copied'[x] # copied[x] /\ copied'[x].src = s) =>
            /\ view'[s] = view[s]
            /\ view'[x] = view[s]
     /\ \A x \in Views :
          (last'.via = x /\ Linked(x)) =>
            /\ pc' = "run"
            /\ n' = n + 1
            /\ last'.ret = Val("int", n + 1)]_vars

(* v2 is a copy of v1, both lead to c1; a call through the copy and then a *)
(* call through the original, which returned 2.                            *)
C3_Witness ==
  /\ pc = "run"
  /\ copied["v2"].src = "v1"
  /\ Linked("v1")
  /\ Linked("v2")
  /\ last.via = "v1"
  /\ last.prev = "v2"
  /\ last.ret = Val("int", 2)

(* C4: a view tests empty, under operator bool and the four comparisons    *)
(* with nullptr, exactly when its value came from default construction,    *)
(* nullptr, or a copy of such a view.                                      *)
C4_EmptyIffFromNull ==
  \A v \in Views :
    LET e == origin[v].kind \in {"empty", "nullassign"}
    IN  /\ operator_bool(view[v]) = ~e
        /\ eq_null_r(view[v]) = e
        /\ eq_null_l(view[v]) = e
        /\ ne_null_r(view[v]) = ~e
        /\ ne_null_l(view[v]) = ~e

(* A view cleared by assignment still holds the function it was bound to   *)
(* and tests empty; a copy of it tests empty; a view made from the empty   *)
(* view of the other signature tests non-empty.                            *)
C4_Witness ==
  /\ origin["v1"].kind = "nullassign"
  /\ view["v1"].m_erased_callable = erased_callable("fn", "f1")
  /\ copied["v2"].src = "v1"
  /\ ~operator_bool(view["v2"])
  /\ origin["w"] = Origin("view", "v1", "empty")
  /\ operator_bool(view["w"])

(* The claim's own reading of acceptance.                                  *)
Invocable(c, S) ==
  /\ c.cat # "scalar"
  /\ Len(c.args) = Len(S.args)
  /\ \A i \in 1..Len(S.args) :
       \/ S.args[i] = c.args[i]
       \/ {S.args[i], c.args[i]} \subseteq {"bool", "int"}

Accepted(c, S) ==
  /\ Invocable(c, S)
  /\ \/ S.res = "void"
     \/ c.res = S.res
     \/ {c.res, S.res} \subseteq {"bool", "int"}

(* C5: a view is built from a candidate exactly when the candidate can be  *)
(* called with the declared parameters and the declared result is void,    *)
(* or is the candidate's result type, or that type converts to it; a       *)
(* rejected candidate leaves no view.                                      *)
C5_AcceptedIffCompatible ==
  /\ trial.state = "built" => Accepted(cand, csig) /\ trial.fv # NoView
  /\ trial.state = "rejected" => ~Accepted(cand, csig) /\ trial.fv = NoView

(* A function returning int was offered to a view returning bool, and the  *)
(* view was built.                                                         *)
C5_Witness ==
  /\ trial.state = "built"
  /\ cand = Desc("fn", "int", <<"int">>)
  /\ csig = Sig("bool", <<"int">>)
  /\ trial.fv = function_view(erased_callable("fn", "x"), Invoker("fn", cand))

(* The pair one construction from the origin o writes.                     *)
ExpectedPair(o) ==
  IF o.kind \in {"fn", "ptr"}
  THEN function_view(erased_callable("fn", o.target), Invoker("fn", FnType))
  ELSE IF o.kind \in {"obj", "view"}
  THEN function_view(erased_callable("data", o.target), Invoker("obj", ObjType(o.target)))
  ELSE function_view(erased_callable("data", "null"), NullInvoker)

(* C6 as stated: every view holds a pair written whole by one operation,   *)
(* and a view cleared by assignment holds the pair of a default            *)
(* constructed view.                                                       *)
C6_Original ==
  \A v \in Views : view[v] = ExpectedPair(origin[v])

(* C6 as amended: construction, copy and copy assignment write the payload *)
(* and the invoker together; the assignment of nullptr writes the invoker  *)
(* alone and leaves the payload.  A view with an invoker holds the payload *)
(* written with it, and a cleared view has the null invoker of a default   *)
(* constructed view and the payload it had.                                *)
C6_PairWholeUnlessCleared ==
  /\ [](\A v \in Views :
          IF origin[v].kind = "nullassign"
          THEN view[v].m_invoker = NullInvoker
          ELSE view[v] = ExpectedPair(origin[v]))
  /\ [][\A v \in Views :
          (origin'[v].kind = "nullassign" /\ view'[v] # view[v]) =>
            \/ view'[v].m_erased_callable = view[v].m_erased_callable
            \/ \E s \in Views \ {v} :
                 origin[s].kind = "nullassign" /\ view'[v] = view[s]]_vars

(* A view bound to f1 was cleared by assignment: null invoker, payload     *)
(* still the address of f1.                                                *)
C6_Witness ==
  /\ origin["v1"].kind = "nullassign"
  /\ copied["v1"] = NoCopy
  /\ view["v1"] = function_view(erased_callable("fn", "f1"), NullInvoker)

(* C7: the invoker of a non-empty view reads the member of the union its   *)
(* binding wrote: the function member for a function or function pointer,  *)
(* the data member for anything else.                                      *)
C7_ReadsWhatBindingWrote ==
  \A v \in Views :
    operator_bool(view[v]) =>
      /\ TrampolineReads(view[v].m_invoker.kind) = view[v].m_erased_callable.tag
      /\ origin[v].kind \in {"fn", "ptr"} => view[v].m_erased_callable.tag = "fn"
      /\ origin[v].kind \in {"obj", "view"} => view[v].m_erased_callable.tag = "data"

(* A view bound through the pointer variable, a copy of a view bound to a  *)
(* function object, and a view bound to a view, all at once.               *)
C7_Witness ==
  /\ origin["v1"].kind = "ptr"
  /\ origin["v2"].kind = "obj"
  /\ copied["v2"].src = "v1"
  /\ origin["w"].kind = "view"
  /\ \A v \in Views : operator_bool(view[v])

(* C8: a view made from a view of its own type, however the source is      *)
(* decorated, holds the pair the source held then and never the address of *)
(* the source, whatever happens to the source afterwards.                  *)
C8_CopyHoldsPairNotSource ==
  \A x \in Views :
    copied[x].src # "none" =>
      /\ view[x] = copied[x].pair
      /\ view[x].m_erased_callable # erased_callable("data", copied[x].src)

(* v2 was made from v1 when v1 was bound to c1; v1 was cleared since, and  *)
(* a call through v2 ran c1.                                               *)
C8_Witness ==
  /\ pc = "run"
  /\ copied["v2"].src = "v1"
  /\ origin["v2"] = Origin("obj", "c1", "none")
  /\ origin["v1"].kind = "nullassign"
  /\ last.via = "v2"
  /\ last.calls = 1
  /\ n = expectN
  /\ n > 0

(* C9: a view made from the function pointer variable p holds the code     *)
(* address p held then: after p is given another function, a call through  *)
(* the view still runs the function p designated at construction, not the  *)
(* one p designates now.                                                   *)
C9_PointerValueCaptured ==
  /\ [](\A v \in Views :
          origin[v].kind = "ptr" =>
            view[v].m_erased_callable = erased_callable("fn", origin[v].target))
  /\ [][\A v \in Views :
          (last'.via = v /\ origin[v].kind = "ptr" /\ p # origin[v].target) =>
            LET d == Direct(origin[v].target, last'.arg)
            IN  /\ pc' = "run"
                /\ g' = d.g
                /\ g' # Direct(p, last'.arg).g
                /\ last'.ret = Cast(d.ret, ViewSig(v).res)]_vars

(* v1 was made from p when p held f1; p holds f2 now, and a call through   *)
(* v1 with 5 returned f1's 6.                                              *)
C9_Witness ==
  /\ pc = "run"
  /\ origin["v1"] = Origin("ptr", "f1", "none")
  /\ p = "f2"
  /\ last.via = "v1"
  /\ last.arg = 5
  /\ last.ret = Val("int", 6)

(* C10: a view made from a view of another signature holds the address of  *)
(* that view and is non-empty; each call through it goes through the pair  *)
(* the source view holds at that moment, and is a call of an empty view    *)
(* when the source is empty.                                               *)
C10_OuterFollowsSourceView ==
  /\ [](\A v \in Views :
          origin[v].kind = "view" =>
            /\ view[v].m_erased_callable = erased_callable("data", origin[v].target)
            /\ operator_bool(view[v]))
  /\ [][\A v \in Views :
          (last'.via = v /\ origin[v].kind = "view") =>
            IF operator_bool(view[origin[v].target])
            THEN LET d == Direct(ExpectedTarget(origin[v].target), last'.arg)
                 IN  /\ pc' = "run"
                     /\ last'.calls = 1
                     /\ n' = d.n
                     /\ g' = d.g
                     /\ last'.ret = Cast(d.ret, ViewSig(v).res)
            ELSE /\ pc' \in {"crashed", "undefined"}
                 /\ last'.calls = 0
                 /\ n' = n
                 /\ g' = g]_vars

(* w was made from v1 when v1 led to f1; v1 was bound to c1 since, and a   *)
(* call through w ran c1.                                                  *)
C10_Witness ==
  /\ pc = "run"
  /\ origin["w"] = Origin("view", "v1", "f1")
  /\ origin["v1"] = Origin("obj", "c1", "none")
  /\ last.via = "w"
  /\ last.calls = 1
  /\ lastc1 = "w"
  /\ n = 1

====
